---- MODULE Spec2Model ----
(***************************************************************************)
(* Model of cloud_autopkg_runner.recipe.Recipe: the two-phase execution    *)
(* pipeline (run / run_check_phase / run_full), the metadata collection    *)
(* fan-out, and the trust-info state kept in Recipe._trusted.              *)
(*                                                                         *)
(* One Recipe object is modelled.  Each caller is a coroutine that calls   *)
(* the public async methods of that object; a caller is suspended while a  *)
(* subprocess, a metadata fetch or the cache save it awaits is in flight.  *)
(* An action is one uninterrupted stretch of a coroutine: from a call or   *)
(* the completion of an awaited operation up to the next await or return.  *)
(*                                                                         *)
(* Spec is that pipeline, with one caller.  Six more specifications share  *)
(* the variables: SpecSettings (assignments to the settings object),       *)
(* SpecFind (Recipe.find_recipe over trees of recipe files), SpecParse     *)
(* (Recipe.__init__ and the accessors over recipe files of any content),   *)
(* SpecReport (Recipe.__init__ and the report files on disk), SpecTrust    *)
(* (two coroutines calling the trust methods of the one Recipe) and        *)
(* SpecCmd (the subprocess command lines while the verbosity changes).     *)
(***************************************************************************)
EXTENDS Integers, Sequences, FiniteSets, TLC

\* ------------------------------------------------------------------ bounds
\* Longest downloaded_items section the external tool writes to a report.
MaxItems == 2
\* Number of distinct artifact paths that can occur in a report.
NumPaths == 2
\* Largest exit code a subprocess returns (0 = success).
MaxExitCode == 1

Paths == 1..NumPaths
ExitCodes == 0..MaxExitCode

\* --------------------------------------------------------- Python values
\* A Python value of type bool or int.  bool is a subclass of int: True and
\* 1 hash and compare equal, as do False and 0.
PyBool(b) == [type |-> "bool", num |-> IF b THEN 1 ELSE 0]
PyInt(n) == [type |-> "int", num |-> n]
PyTrue == PyBool(TRUE)
PyFalse == PyBool(FALSE)
PyEq(a, b) == a.num = b.num

\* ------------------------------------------- TrustInfoVerificationState
\* The class body in definition order.  auto() yields 1 for the first
\* member of an Enum.
TrustInfoVerificationStateBody ==
    << [name |-> "UNTESTED", value |-> PyInt(1)],
       [name |-> "FAILED", value |-> PyFalse],
       [name |-> "TRUSTED", value |-> PyTrue] >>

\* Enum keeps one member per value: a name whose value equals (==) the value
\* of an earlier name is an alias of that earlier member.
EnumIndex(name) ==
    CHOOSE i \in 1..Len(TrustInfoVerificationStateBody) :
        TrustInfoVerificationStateBody[i].name = name

EnumMember(name) ==
    LET v == TrustInfoVerificationStateBody[EnumIndex(name)].value
        first == CHOOSE i \in 1..Len(TrustInfoVerificationStateBody) :
                    /\ PyEq(TrustInfoVerificationStateBody[i].value, v)
                    /\ \A j \in 1..(i - 1) :
                          ~PyEq(TrustInfoVerificationStateBody[j].value, v)
    IN  TrustInfoVerificationStateBody[first].name

UNTESTED == EnumMember("UNTESTED")
FAILED == EnumMember("FAILED")
TRUSTED == EnumMember("TRUSTED")

\* member.value
EnumValue(member) == TrustInfoVerificationStateBody[EnumIndex(member)].value

\* ------------------------------------------------------------ the report
\* An entry of a report's downloaded items is a dict; the entries the
\* URL downloader writes carry a download_path, other entries do not.
PathItems == {[download_path |-> p] : p \in Paths}
NoPathItem == [version |-> 1]
Items == PathItems \cup {NoPathItem}

RECURSIVE SeqsUpTo(_, _)
SeqsUpTo(S, n) ==
    IF n = 0 THEN {<<>>}
    ELSE LET shorter == SeqsUpTo(S, n - 1)
         IN  shorter \cup {Append(s, x) : s \in {q \in shorter : Len(q) = n - 1}, x \in S}

\* The report file on disk as the external tool leaves it when it exits.
\* (Only the section run() inspects is modelled.)
ReportFiles == [url_downloader_rows : SeqsUpTo(Items, MaxItems)]

\* The report path is chosen so that no file exists there: nothing to read
\* until the external tool has written its first report.
NoFile == [url_downloader_rows |-> <<>>]

\* RecipeReport.refresh_contents: re-read the file from disk.
refresh_contents(onDisk) == onDisk

\* RecipeReport.consolidate_report: reduce the raw sections.
consolidate_report(contents) ==
    [downloaded_items |-> contents.url_downloader_rows]

\* Recipe._extract_download_paths: item["download_path"] raises KeyError for
\* an item without that key.
extract_raises(download_items) ==
    \E i \in 1..Len(download_items) : "download_path" \notin DOMAIN download_items[i]

_extract_download_paths(download_items) ==
    IF download_items = <<>> THEN <<>>
    ELSE [i \in 1..Len(download_items) |-> download_items[i].download_path]

\* ------------------------------------------------------------- metadata
Attrs == {"etag", "file_size", "last_modified"}

\* file_utils.get_file_metadata / get_file_size: the attribute of the
\* artifact on disk.
FileAttr(p, a) == <<a, p>>

\* The fetches issued by the nested gather for a list of paths: one per
\* position in the list and attribute.
Fetches(paths) == (1..Len(paths)) \X Attrs

\* The awaitables _get_metadata_for_item hands to its gather, in the order
\* of the arguments: etag_task, file_size_task, last_modified_task.
ItemTasks == <<"etag", "file_size", "last_modified">>

\* What the fetches of one metadata collection have returned so far:
\* `results` maps a finished fetch <<i, attribute>> to what it returned,
\* `finished` lists the items whose three fetches are all done (whose
\* _get_metadata_for_item has returned), in the order they got there.
\* (The order in which the three fetches of one item finish is not kept.)
NoFetched == [results |-> <<>>, finished |-> <<>>]

\* Fetch f = <<i, attribute>> finishes and returns value.
Fetched(g, f, value) ==
    LET i == f[1]
        others == {<<i, a>> : a \in Attrs \ {f[2]}}
    IN  [results |-> (f :> value) @@ g.results,
         finished |-> IF others \subseteq DOMAIN g.results
                      THEN Append(g.finished, i) ELSE g.finished]

\* gather that lists the results in the order the awaitables finished.
gather_AsCompleted(returned, completed) ==
    [k \in 1..Len(completed) |-> returned[completed[k]]]

\* asyncio.gather(*aws) once every awaitable has finished: the list of what
\* they returned, in the order of the arguments.  `returned` maps the
\* position of an argument to what it returned, `completed` lists the
\* positions in the order the awaitables finished.
gather(returned, completed) ==
    [k \in 1..Len(completed) |-> returned[k]]

\* _get_metadata_for_item with the results unpacked in another order than
\* the tasks were passed: file_size, etag, last_modified.
_get_metadata_for_item_Unpack(downloaded_item, got) ==
    LET results == gather([k \in 1..Len(ItemTasks) |-> got[ItemTasks[k]]],
                          [k \in 1..Len(ItemTasks) |-> k])
    IN  [etag |-> results[2],
         file_size |-> results[1],
         last_modified |-> results[3],
         file_path |-> downloaded_item]

\* Recipe._get_metadata_for_item once its gather has returned: `got` is
\* what each of the three fetches returned.  The gather's list is unpacked
\* into etag, file_size, last_modified.
_get_metadata_for_item(downloaded_item, got) ==
    LET results == gather([k \in 1..Len(ItemTasks) |-> got[ItemTasks[k]]],
                          [k \in 1..Len(ItemTasks) |-> k])
    IN  [etag |-> results[1],
         file_size |-> results[2],
         last_modified |-> results[3],
         file_path |-> downloaded_item]

\* Recipe._get_metadata once its gather has returned: the "metadata" list
\* of the RecipeCache, one _get_metadata_for_item per extracted path.
_get_metadata(paths, g) ==
    gather([i \in 1..Len(paths) |->
               _get_metadata_for_item(paths[i],
                                      [a \in Attrs |-> g.results[<<i, a>>]])],
           g.finished)

\* ----------------------------------------------------------- subprocess
\* shell.run_cmd: whether the call raises for the given exit code.
run_cmd_raises(returncode) == FALSE

\* ------------------------------------------------------------- settings
\* Largest magnitude of an integer a caller assigns to a setting.
MaxAssigned == 2

\* A str, a pathlib.Path (held by its text) and None.
PyStr(s) == [type |-> "str", text |-> s]
PyPath(s) == [type |-> "Path", text |-> s]
PyNone == [type |-> "NoneType"]

\* SettingsImpl.__init__ with its default arguments, as the module-level
\* `settings = SettingsImpl()` calls it.
DefaultSettings ==
    [cache_file |-> PyPath("metadata_cache.json"),
     log_file |-> PyNone,
     max_concurrency |-> 10,
     report_dir |-> PyPath("recipe_reports"),
     verbosity_level |-> 0]

\* SettingsImpl._convert_to_path: the Path for a str, a Path as it is.
_convert_to_path(value) ==
    IF value.type = "str" THEN PyPath(value.text) ELSE value

\* _validate_integer_is_positive with the test `value < 0`.
_validate_integer_is_positive_AllowsZero(value) == value < 0

\* SettingsImpl._validate_integer_is_positive: TRUE when it raises
\* SettingsValidationError.
_validate_integer_is_positive(value) == value < 1

\* SettingsImpl._validate_integer_is_not_negative: TRUE when it raises
\* SettingsValidationError.
_validate_integer_is_not_negative(value) == value < 0

SettingsValidationError(field_name) ==
    [type |-> "SettingsValidationError", field |-> field_name]

\* SettingsImpl.verbosity_int(delta) of the settings object `self`.
verbosity_int(self, delta) ==
    LET level == self.verbosity_level + delta
    IN  IF level <= 0 THEN 0 ELSE level

\* SettingsImpl.verbosity_str(delta): a str is held as the sequence of its
\* pieces, "" is <<>> and "-" + "v" * level is "-" followed by level "v"s.
verbosity_str(self, delta) ==
    LET level == self.verbosity_level + delta
    IN  IF level <= 0 THEN <<>> ELSE <<"-">> \o [i \in 1..level |-> "v"]

\* ----------------------------------------------------------------- state
VARIABLES
    recipe_name,   \* Recipe._name: the name the caller asked for
    path,          \* Recipe._path: [parent, name] of the located file
    trusted,       \* Recipe._trusted
    assigned,      \* the member name the last assignment to _trusted used
    file,          \* content of the report file on disk
    pc,            \* per caller: where its coroutine is suspended
    op,            \* per caller: the public method it called
    ret,           \* per caller: outcome of its last call
    output,        \* per caller: run()'s local `output`
    metadata,      \* per caller: run()'s local `metadata`
    pending,       \* per caller: fetches issued and not yet finished
    fetched,       \* per caller: what the fetches finished so far returned
    running,       \* per caller: the subprocess it awaits, or "none"
    saving,        \* per caller: a MetadataCacheManager.save is in flight
    orphans,       \* fetches still in flight after their gather failed
    obs,           \* per caller: what the current/last call did so far
    verifyRan,     \* verify-trust-info was invoked since the last update
    result,        \* Recipe._result: the content the RecipeReport holds
    settings,      \* the module-level SettingsImpl instance
    last,          \* outcome of the last settings assignment or lookup
    tree,          \* the recipe files under the lookup directories
    reports,       \* the report files that exist on disk
    now,           \* the current minute of the clock
    recipes        \* outcome of each Recipe(...) call made so far

vars == <<recipe_name, path, trusted, assigned, file, pc, op, ret, output,
          metadata, pending, fetched, running, saving, orphans, obs,
          verifyRan, result, settings, last, tree, reports, now, recipes>>

\* The state outside the one Recipe object whose pipeline is modelled.
world == <<settings, last, tree, reports, now, recipes>>

\* The state of that Recipe object and of its callers.
pipeline == <<recipe_name, path, trusted, assigned, file, pc, op, ret, output,
              metadata, pending, fetched, running, saving, orphans, obs,
              verifyRan, result>>

Callers == DOMAIN pc

\* Recipe.name
name == path.name

NoRet == [kind |-> "none"]
Report(r) == [kind |-> "report", report |-> r]
Value(v) == [kind |-> "value", value |-> v]
Raised(e) == [kind |-> "raised", exc |-> e]

NoReport == [downloaded_items |-> <<>>]

\* What a call has done so far: subprocess starts (nCheck, nFull, nVerify),
\* save calls started (nSave, with the keys passed in saveKeys) and completed
\* (nSaved), fetches finished (nFetch), reports compiled (nCompile), the exit
\* codes seen (-1: none yet), _trusted at entry, the operation that failed,
\* the command line of the subprocess started last (cmd) and, for a call
\* suspended in verify-trust-info, whether another coroutine has meanwhile
\* called update_trust_info ("called") and got its result ("done").
\* The cache store itself is external: a save is its call and completion.
NoObs == [nCheck |-> 0, nFull |-> 0, nSave |-> 0, nSaved |-> 0, nFetch |-> 0,
          nVerify |-> 0, nCompile |-> 0, saveKeys |-> <<>>, rcCheck |-> -1,
          rcFull |-> -1, rcTrust |-> -1, trustBefore |-> "-", failed |-> "-",
          cmd |-> <<>>, invalidated |-> "-"]

\* The recipe the object was constructed for: the name asked for and the
\* file the locator found for it.
AskedName == "Foo"
LocatedPath == [parent |-> "overrides", name |-> "Foo.recipe"]

\* State after Recipe.__init__, with the given set of callers.
InitFor(C) ==
    /\ recipe_name = AskedName
    /\ path = LocatedPath
    /\ trusted = UNTESTED
    /\ assigned = "UNTESTED"
    /\ file = NoFile
    /\ pc = [t \in C |-> "idle"]
    /\ op = [t \in C |-> "none"]
    /\ ret = [t \in C |-> NoRet]
    /\ output = [t \in C |-> NoReport]
    /\ metadata = [t \in C |-> <<>>]
    /\ pending = [t \in C |-> {}]
    /\ fetched = [t \in C |-> NoFetched]
    /\ running = [t \in C |-> "none"]
    /\ saving = [t \in C |-> FALSE]
    /\ orphans = 0
    /\ obs = [t \in C |-> NoObs]
    /\ verifyRan = FALSE
    /\ result = NoFile

\* Outside the pipeline: the default settings, nothing looked up or
\* constructed yet, no file on disk.
NoWorld ==
    /\ settings = DefaultSettings
    /\ last = [kind |-> "none"]
    /\ tree = {}
    /\ reports = {}
    /\ now = 1
    /\ recipes = <<>>

Init == InitFor({1}) /\ NoWorld

\* ------------------------------------------------------------- helpers
\* compile_report without the refresh: the content the RecipeReport already
\* holds is consolidated.
compile_report_Stale(onDisk) == consolidate_report(result)

\* Recipe.compile_report, given the file's content at the time of the call.
compile_report(onDisk) == consolidate_report(refresh_contents(onDisk))

\* RecipeReport.file_path() of the report this Recipe was constructed with.
ReportFilePath == "recipe_reports/report_Foo.recipe.plist"

\* _autopkg_run_cmd reading the verbosity without the delta of -1.
_autopkg_run_cmd_NoDelta(check) ==
    LET cmd == << <<"/usr/local/bin/autopkg">>, <<"run">>, <<name>>,
                  <<"--report-plist=", ReportFilePath>> >>
        verbose == IF verbosity_int(settings, 0) > 0
                   THEN Append(cmd, verbosity_str(settings, 0)) ELSE cmd
    IN  IF check THEN Append(verbose, <<"--check">>) ELSE verbose

\* Recipe._autopkg_run_cmd(check=...): the list of arguments, each a str.
_autopkg_run_cmd(check) ==
    LET cmd == << <<"/usr/local/bin/autopkg">>, <<"run">>, <<name>>,
                  <<"--report-plist=", ReportFilePath>> >>
        verbose == IF verbosity_int(settings, -1) > 0
                   THEN Append(cmd, verbosity_str(settings, -1)) ELSE cmd
    IN  IF check THEN Append(verbose, <<"--check">>) ELSE verbose

\* The cmd list verify_trust_info builds.
verify_trust_info_cmd ==
    LET cmd == << <<"/usr/local/bin/autopkg">>, <<"verify-trust-info">>,
                  <<name>>, <<"--override-dir=", path.parent>> >>
    IN  IF verbosity_int(settings, 0) > 0
        THEN Append(cmd, verbosity_str(settings, 0)) ELSE cmd

\* The cmd list update_trust_info builds.
update_trust_info_cmd ==
    << <<"/usr/local/bin/autopkg">>, <<"update-trust-info">>, <<name>>,
       <<"--override-dir=", path.parent>> >>

\* A caller enters public method o: its record of the call starts empty.
\* (Bound: the next call is made once no stray fetch is in flight, which
\* keeps the number of stray fetches below 3 * MaxItems.)
Enter(t, o) ==
    /\ pc[t] = "idle"
    /\ orphans = 0
    /\ op' = [op EXCEPT ![t] = o]
    /\ output' = [output EXCEPT ![t] = NoReport]
    /\ metadata' = [metadata EXCEPT ![t] = <<>>]

\* Recipe.run_check_phase up to its await: run_cmd(autopkg run --check).
StartCheck(t, o) ==
    /\ Enter(t, o)
    /\ running' = [running EXCEPT ![t] = "check"]
    /\ obs' = [obs EXCEPT ![t] = [NoObs EXCEPT !.nCheck = 1,
                                                !.cmd = _autopkg_run_cmd(TRUE)]]
    /\ pc' = [pc EXCEPT ![t] = "check_wait"]
    /\ ret' = [ret EXCEPT ![t] = NoRet]
    /\ UNCHANGED <<world, fetched, result, recipe_name, path, trusted, assigned,
                   file, pending, saving,
                   orphans, verifyRan>>

\* ------------------------------------------------------------- pipeline
\* await recipe.run(): run() calls run_check_phase() first.
CallRun(t) == StartCheck(t, "run")

\* await recipe.run_check_phase()
CallRunCheckPhase(t) == StartCheck(t, "run_check_phase")

\* await recipe.run_full(): up to its await of run_cmd(autopkg run).
CallRunFull(t) ==
    /\ Enter(t, "run_full")
    /\ running' = [running EXCEPT ![t] = "full"]
    /\ obs' = [obs EXCEPT ![t] = [NoObs EXCEPT !.nFull = 1,
                                                !.cmd = _autopkg_run_cmd(FALSE)]]
    /\ pc' = [pc EXCEPT ![t] = "full_wait"]
    /\ ret' = [ret EXCEPT ![t] = NoRet]
    /\ UNCHANGED <<world, fetched, result, recipe_name, path, trusted, assigned,
                   file, pending, saving,
                   orphans, verifyRan>>

\* AfterCheck with the test of output["downloaded_items"] left out: run()
\* goes on to metadata collection whatever the report lists.
AfterCheck_NoShortCircuit(o, out) ==
    IF o = "run_check_phase" THEN
        [pc |-> "idle", ret |-> Report(out), pending |-> {}]
    ELSE IF extract_raises(out.downloaded_items) THEN
        [pc |-> "idle", ret |-> Raised("KeyError"), pending |-> {}]
    ELSE
        [pc |-> "meta_wait", ret |-> NoRet,
         pending |-> Fetches(_extract_download_paths(out.downloaded_items))]

\* What run() does with the report compiled after the check phase, up to
\* its next await or its return: the new pc, ret and pending of the caller.
AfterCheck(o, out) ==
    IF o = "run_check_phase" THEN
        [pc |-> "idle", ret |-> Report(out), pending |-> {}]
    ELSE IF out.downloaded_items # <<>> THEN
        IF extract_raises(out.downloaded_items) THEN
            [pc |-> "idle", ret |-> Raised("KeyError"), pending |-> {}]
        ELSE
            [pc |-> "meta_wait", ret |-> NoRet,
             pending |-> Fetches(_extract_download_paths(out.downloaded_items))]
    ELSE
        [pc |-> "idle", ret |-> Report(out), pending |-> {}]

\* CheckExit with run_cmd(..., check=True): a non-zero exit code raises
\* before the report is compiled.
CheckExit_RaiseOnNonZero(t) ==
    /\ pc[t] = "check_wait"
    /\ running[t] = "check"
    /\ \E returncode \in ExitCodes, written \in ReportFiles :
          LET out == compile_report(written)
              nxt == AfterCheck(op[t], out)
          IN  /\ file' = written
              /\ result' = refresh_contents(written)
              /\ running' = [running EXCEPT ![t] = "none"]
              /\ IF returncode # 0 THEN
                    /\ obs' = [obs EXCEPT ![t].rcCheck = returncode]
                    /\ pc' = [pc EXCEPT ![t] = "idle"]
                    /\ ret' = [ret EXCEPT ![t] = Raised("ShellCommandException")]
                    /\ UNCHANGED <<output, pending>>
                 ELSE
                    /\ output' = [output EXCEPT ![t] = out]
                    /\ obs' = [obs EXCEPT ![t].rcCheck = returncode,
                                          ![t].nCompile = @ + 1]
                    /\ pc' = [pc EXCEPT ![t] = nxt.pc]
                    /\ ret' = [ret EXCEPT ![t] = nxt.ret]
                    /\ pending' = [pending EXCEPT ![t] = nxt.pending]
    /\ UNCHANGED <<world, fetched, recipe_name, path, trusted, assigned, op, metadata,
                   saving, orphans, verifyRan>>

\* The check-phase subprocess exits with some code, having left some report
\* on disk; run_check_phase compiles the report and returns it, and run()
\* either returns it or issues the metadata fetches.
CheckExit(t) ==
    /\ pc[t] = "check_wait"
    /\ running[t] = "check"
    /\ \E returncode \in ExitCodes, written \in ReportFiles :
          LET out == compile_report(written)
              nxt == AfterCheck(op[t], out)
          IN  /\ file' = written
              /\ result' = refresh_contents(written)
              /\ running' = [running EXCEPT ![t] = "none"]
              /\ output' = [output EXCEPT ![t] = out]
              /\ obs' = [obs EXCEPT ![t].rcCheck = returncode,
                                    ![t].nCompile = @ + 1]
              /\ pc' = [pc EXCEPT ![t] = nxt.pc]
              /\ ret' = [ret EXCEPT ![t] = nxt.ret]
              /\ pending' = [pending EXCEPT ![t] = nxt.pending]
    /\ UNCHANGED <<world, fetched, recipe_name, path, trusted, assigned,
                   op, metadata, saving,
                   orphans, verifyRan>>

\* FetchDone with the save scheduled instead of awaited: on the last fetch
\* run() starts the save and goes straight on to run_full().
FetchDone_SaveNotAwaited(t) ==
    /\ pc[t] = "meta_wait"
    /\ \E f \in pending[t] :
          LET rest == pending[t] \ {f}
              paths == _extract_download_paths(output[t].downloaded_items)
              got == Fetched(fetched[t], f, FileAttr(paths[f[1]], f[2]))
          IN  /\ pending' = [pending EXCEPT ![t] = rest]
              /\ IF rest = {} THEN
                    /\ metadata' = [metadata EXCEPT ![t] = _get_metadata(paths, got)]
                    /\ fetched' = [fetched EXCEPT ![t] = NoFetched]
                    /\ saving' = [saving EXCEPT ![t] = TRUE]
                    /\ running' = [running EXCEPT ![t] = "full"]
                    /\ obs' = [obs EXCEPT ![t].nFetch = @ + 1,
                                          ![t].nSave = @ + 1,
                                          ![t].nFull = @ + 1,
                                          ![t].saveKeys = Append(@, name),
                                          ![t].cmd = _autopkg_run_cmd(FALSE)]
                    /\ pc' = [pc EXCEPT ![t] = "full_wait"]
                 ELSE
                    /\ fetched' = [fetched EXCEPT ![t] = got]
                    /\ obs' = [obs EXCEPT ![t].nFetch = @ + 1]
                    /\ UNCHANGED <<metadata, saving, pc, running>>
    /\ UNCHANGED <<world, result, recipe_name, path, trusted, assigned, file, op, ret,
                   output, orphans, verifyRan>>

\* One fetch finishes with a result.  When it is the last one, both gathers
\* return, _get_metadata returns the RecipeCache and run() awaits
\* MetadataCacheManager.save(settings.cache_file, self.name, metadata).
FetchDone(t) ==
    /\ pc[t] = "meta_wait"
    /\ \E f \in pending[t] :
          LET rest == pending[t] \ {f}
              paths == _extract_download_paths(output[t].downloaded_items)
              got == Fetched(fetched[t], f, FileAttr(paths[f[1]], f[2]))
          IN  /\ pending' = [pending EXCEPT ![t] = rest]
              /\ IF rest = {} THEN
                    /\ metadata' = [metadata EXCEPT ![t] = _get_metadata(paths, got)]
                    /\ fetched' = [fetched EXCEPT ![t] = NoFetched]
                    /\ saving' = [saving EXCEPT ![t] = TRUE]
                    /\ obs' = [obs EXCEPT ![t].nFetch = @ + 1,
                                          ![t].nSave = @ + 1,
                                          ![t].saveKeys = Append(@, name)]
                    /\ pc' = [pc EXCEPT ![t] = "save_wait"]
                 ELSE
                    /\ fetched' = [fetched EXCEPT ![t] = got]
                    /\ obs' = [obs EXCEPT ![t].nFetch = @ + 1]
                    /\ UNCHANGED <<metadata, saving, pc>>
    /\ UNCHANGED <<world, result, recipe_name, path, trusted, assigned,
                   file, op, ret, output,
                   running, orphans, verifyRan>>

\* FetchFail with the exception swallowed (gather(return_exceptions=True)):
\* the failed fetch counts as finished and the collection goes on.
FetchFail_Swallowed(t) ==
    /\ pc[t] = "meta_wait"
    /\ \E f \in pending[t] :
          LET rest == pending[t] \ {f}
              paths == _extract_download_paths(output[t].downloaded_items)
              got == Fetched(fetched[t], f, FileAttr(paths[f[1]], f[2]))
          IN  /\ pending' = [pending EXCEPT ![t] = rest]
              /\ IF rest = {} THEN
                    /\ metadata' = [metadata EXCEPT ![t] = _get_metadata(paths, got)]
                    /\ fetched' = [fetched EXCEPT ![t] = NoFetched]
                    /\ saving' = [saving EXCEPT ![t] = TRUE]
                    /\ obs' = [obs EXCEPT ![t].nFetch = @ + 1,
                                          ![t].failed = "fetch",
                                          ![t].nSave = @ + 1,
                                          ![t].saveKeys = Append(@, name)]
                    /\ pc' = [pc EXCEPT ![t] = "save_wait"]
                 ELSE
                    /\ fetched' = [fetched EXCEPT ![t] = got]
                    /\ obs' = [obs EXCEPT ![t].nFetch = @ + 1,
                                          ![t].failed = "fetch"]
                    /\ UNCHANGED <<metadata, saving, pc>>
    /\ UNCHANGED <<world, result, recipe_name, path, trusted, assigned, file, op, ret,
                   output, running, orphans, verifyRan>>

\* One fetch fails: gather (without return_exceptions) hands the exception
\* to its awaiter at once, run() raises it and what the finished fetches
\* returned is dropped; the other fetches are not cancelled and stay in
\* flight.
FetchFail(t) ==
    /\ pc[t] = "meta_wait"
    /\ \E f \in pending[t] :
          /\ orphans' = orphans + Cardinality(pending[t] \ {f})
          /\ pending' = [pending EXCEPT ![t] = {}]
          /\ fetched' = [fetched EXCEPT ![t] = NoFetched]
          /\ obs' = [obs EXCEPT ![t].nFetch = @ + 1, ![t].failed = "fetch"]
    /\ pc' = [pc EXCEPT ![t] = "idle"]
    /\ ret' = [ret EXCEPT ![t] = Raised("FetchError")]
    /\ UNCHANGED <<world, result, recipe_name, path, trusted, assigned,
                   file, op, output,
                   metadata, running, saving, verifyRan>>

\* A fetch left behind by a failed gather finishes.
OrphanDone ==
    /\ orphans > 0
    /\ orphans' = orphans - 1
    /\ UNCHANGED <<world, fetched, result, recipe_name, path, trusted, assigned,
                   file, pc, op, ret,
                   output, metadata, pending, running, saving, obs, verifyRan>>

\* The save completes; run() goes on to run_full() up to its await.
SaveDone(t) ==
    /\ pc[t] = "save_wait"
    /\ saving[t]
    /\ saving' = [saving EXCEPT ![t] = FALSE]
    /\ running' = [running EXCEPT ![t] = "full"]
    /\ obs' = [obs EXCEPT ![t].nFull = @ + 1, ![t].nSaved = @ + 1,
                          ![t].cmd = _autopkg_run_cmd(FALSE)]
    /\ pc' = [pc EXCEPT ![t] = "full_wait"]
    /\ UNCHANGED <<world, fetched, result, recipe_name, path, trusted, assigned,
                   file, op, ret, output,
                   metadata, pending, orphans, verifyRan>>

\* The save fails; run() raises.
SaveFail(t) ==
    /\ pc[t] = "save_wait"
    /\ saving[t]
    /\ saving' = [saving EXCEPT ![t] = FALSE]
    /\ pc' = [pc EXCEPT ![t] = "idle"]
    /\ ret' = [ret EXCEPT ![t] = Raised("SaveError")]
    /\ obs' = [obs EXCEPT ![t].failed = "save"]
    /\ UNCHANGED <<world, fetched, result, recipe_name, path, trusted, assigned,
                   file, op, output,
                   metadata, pending, running, orphans, verifyRan>>

\* The full-phase subprocess exits; run_full compiles the report and
\* returns it (to its caller, or through run() to run()'s caller).
FullExit(t) ==
    /\ pc[t] = "full_wait"
    /\ running[t] = "full"
    /\ \E returncode \in ExitCodes, written \in ReportFiles :
          /\ file' = written
          /\ result' = refresh_contents(written)
          /\ obs' = [obs EXCEPT ![t].rcFull = returncode, ![t].nCompile = @ + 1]
          /\ ret' = [ret EXCEPT ![t] = Report(compile_report(written))]
    /\ running' = [running EXCEPT ![t] = "none"]
    /\ pc' = [pc EXCEPT ![t] = "idle"]
    /\ UNCHANGED <<world, fetched, recipe_name, path, trusted, assigned,
                   op, output, metadata,
                   pending, saving, orphans, verifyRan>>

\* recipe.compile_report(), called directly: not a coroutine, it returns
\* before any other step.
CallCompileReport(t) ==
    /\ Enter(t, "compile_report")
    /\ result' = refresh_contents(file)
    /\ ret' = [ret EXCEPT ![t] = Report(compile_report(file))]
    /\ obs' = [obs EXCEPT ![t] = [NoObs EXCEPT !.nCompile = 1]]
    /\ UNCHANGED <<world, fetched, recipe_name, path, trusted, assigned, file, pc,
                   pending, running, saving, orphans, verifyRan>>

\* ---------------------------------------------------------------- trust
\* await recipe.verify_trust_info(): with _trusted == UNTESTED it runs
\* verify-trust-info and awaits it; otherwise it returns _trusted.value.
CallVerify(t) ==
    /\ Enter(t, "verify")
    /\ IF trusted = UNTESTED THEN
          /\ running' = [running EXCEPT ![t] = "verify"]
          /\ obs' = [obs EXCEPT ![t] = [NoObs EXCEPT !.nVerify = 1,
                                                     !.trustBefore = trusted,
                                                     !.cmd = verify_trust_info_cmd]]
          /\ verifyRan' = TRUE
          /\ pc' = [pc EXCEPT ![t] = "verify_wait"]
          /\ ret' = [ret EXCEPT ![t] = NoRet]
          /\ UNCHANGED <<world, fetched, result, recipe_name, path, trusted, assigned,
                   file, pending,
                         saving, orphans>>
       ELSE
          /\ obs' = [obs EXCEPT ![t] = [NoObs EXCEPT !.trustBefore = trusted]]
          /\ pc' = [pc EXCEPT ![t] = "idle"]
          /\ ret' = [ret EXCEPT ![t] = Value(EnumValue(trusted))]
          /\ UNCHANGED <<world, fetched, result, recipe_name, path, trusted, assigned,
                   file, pending,
                         running, saving, orphans, verifyRan>>

\* The verify-trust-info subprocess exits: exit code 0 stores TRUSTED, any
\* other stores FAILED; the method returns self._trusted.value.
VerifyExit(t) ==
    /\ pc[t] = "verify_wait"
    /\ running[t] = "verify"
    /\ \E returncode \in ExitCodes :
          LET after == IF returncode = 0 THEN TRUSTED ELSE FAILED
          IN  /\ trusted' = after
              /\ assigned' = IF returncode = 0 THEN "TRUSTED" ELSE "FAILED"
              /\ obs' = [obs EXCEPT ![t].rcTrust = returncode]
              /\ ret' = [ret EXCEPT ![t] = Value(EnumValue(after))]
    /\ running' = [running EXCEPT ![t] = "none"]
    /\ pc' = [pc EXCEPT ![t] = "idle"]
    /\ UNCHANGED <<world, fetched, result, recipe_name, path, file,
                   op, output, metadata,
                   pending, saving, orphans, verifyRan>>

\* await recipe.update_trust_info(): up to its await of run_cmd.
CallUpdate(t) ==
    /\ Enter(t, "update")
    /\ running' = [running EXCEPT ![t] = "update"]
    /\ obs' = [u \in Callers |->
                  IF u = t
                  THEN [NoObs EXCEPT !.trustBefore = trusted,
                                     !.cmd = update_trust_info_cmd]
                  ELSE IF running[u] = "verify" /\ obs[u].invalidated = "-"
                  THEN [obs[u] EXCEPT !.invalidated = "called"]
                  ELSE obs[u]]
    /\ pc' = [pc EXCEPT ![t] = "update_wait"]
    /\ ret' = [ret EXCEPT ![t] = NoRet]
    /\ UNCHANGED <<world, fetched, result, recipe_name, path, trusted, assigned,
                   file, pending, saving,
                   orphans, verifyRan>>

\* UpdateExit with the reset moved into the success branch.
UpdateExit_ResetOnSuccess(t) ==
    /\ pc[t] = "update_wait"
    /\ running[t] = "update"
    /\ \E returncode \in ExitCodes :
          /\ obs' = [obs EXCEPT ![t].rcTrust = returncode]
          /\ ret' = [ret EXCEPT ![t] = Value(PyBool(returncode = 0))]
          /\ IF returncode = 0 THEN
                /\ trusted' = UNTESTED
                /\ assigned' = "UNTESTED"
                /\ verifyRan' = FALSE
             ELSE
                UNCHANGED <<trusted, assigned, verifyRan>>
    /\ running' = [running EXCEPT ![t] = "none"]
    /\ pc' = [pc EXCEPT ![t] = "idle"]
    /\ UNCHANGED <<world, fetched, result, recipe_name, path, file, op, output, metadata,
                   pending, saving, orphans>>

\* UpdateExit with the exit code test inverted (returncode != 0).
UpdateExit_Inverted(t) ==
    /\ pc[t] = "update_wait"
    /\ running[t] = "update"
    /\ \E returncode \in ExitCodes :
          /\ obs' = [obs EXCEPT ![t].rcTrust = returncode]
          /\ ret' = [ret EXCEPT ![t] = Value(PyBool(returncode # 0))]
    /\ trusted' = UNTESTED
    /\ assigned' = "UNTESTED"
    /\ verifyRan' = FALSE
    /\ running' = [running EXCEPT ![t] = "none"]
    /\ pc' = [pc EXCEPT ![t] = "idle"]
    /\ UNCHANGED <<world, fetched, result, recipe_name, path, file, op, output, metadata,
                   pending, saving, orphans>>

\* The update-trust-info subprocess exits: _trusted is reset to UNTESTED and
\* the method returns whether the exit code was 0.
UpdateExit(t) ==
    /\ pc[t] = "update_wait"
    /\ running[t] = "update"
    /\ \E returncode \in ExitCodes :
          /\ obs' = [u \in Callers |->
                        IF u = t THEN [obs[t] EXCEPT !.rcTrust = returncode]
                        ELSE IF /\ running[u] = "verify"
                                /\ obs[u].invalidated = "called"
                                /\ ~run_cmd_raises(returncode)
                        THEN [obs[u] EXCEPT !.invalidated = "done"]
                        ELSE obs[u]]
          /\ IF run_cmd_raises(returncode) THEN
                /\ ret' = [ret EXCEPT ![t] = Raised("ShellCommandException")]
                /\ UNCHANGED <<trusted, assigned, verifyRan>>
             ELSE
                /\ trusted' = UNTESTED
                /\ assigned' = "UNTESTED"
                /\ verifyRan' = FALSE
                /\ ret' = [ret EXCEPT ![t] = Value(PyBool(returncode = 0))]
    /\ running' = [running EXCEPT ![t] = "none"]
    /\ pc' = [pc EXCEPT ![t] = "idle"]
    /\ UNCHANGED <<world, fetched, result, recipe_name, path, file,
                   op, output, metadata,
                   pending, saving, orphans>>

\* ------------------------------------------------------- specification
Next ==
    \/ \E t \in Callers : CallRun(t)
    \/ \E t \in Callers : CallRunCheckPhase(t)
    \/ \E t \in Callers : CallRunFull(t)
    \/ \E t \in Callers : CheckExit(t)
    \/ \E t \in Callers : FetchDone(t)
    \/ \E t \in Callers : FetchFail(t)
    \/ OrphanDone
    \/ \E t \in Callers : SaveDone(t)
    \/ \E t \in Callers : SaveFail(t)
    \/ \E t \in Callers : FullExit(t)
    \/ \E t \in Callers : CallCompileReport(t)
    \/ \E t \in Callers : CallVerify(t)
    \/ \E t \in Callers : VerifyExit(t)
    \/ \E t \in Callers : CallUpdate(t)
    \/ \E t \in Callers : UpdateExit(t)

Spec == Init /\ [][Next]_vars

TypeOK ==
    /\ trusted \in {"UNTESTED", "FAILED", "TRUSTED"}
    /\ file \in ReportFiles
    /\ orphans \in 0..(3 * MaxItems)
    /\ \A t \in Callers :
          /\ DOMAIN fetched[t].results \subseteq (1..MaxItems) \X Attrs
          /\ Len(fetched[t].finished) <= MaxItems
    /\ \A t \in Callers :
          /\ pc[t] \in {"idle", "check_wait", "meta_wait", "save_wait",
                        "full_wait", "verify_wait", "update_wait"}
          /\ ret[t].kind \in {"none", "report", "value", "raised"}

\* ------------------------------------------------------------ properties
\* Number of fetches run() issues for its check-phase report.
NumFetches(t) == 3 * Len(output[t].downloaded_items)

\* The check phase of caller t's call has exited and its report is compiled.
CheckCompiled(t) == obs[t].rcCheck # -1

\* C1: in every run() whose report compiled after the check phase has an
\* empty downloaded_items section, no fetch is issued, no save is made, the
\* full-phase subprocess is never started, and run() has returned exactly
\* that report.
C1_ShortCircuit ==
    \A t \in Callers :
        (op[t] = "run" /\ CheckCompiled(t) /\ output[t].downloaded_items = <<>>)
        => /\ pc[t] = "idle"
           /\ ret[t] = Report(output[t])
           /\ obs[t].nFull = 0
           /\ obs[t].nFetch = 0
           /\ obs[t].nSave = 0
           /\ obs[t].nCompile = 1
           /\ pending[t] = {}
           /\ metadata[t] = <<>>
           /\ running[t] = "none"
           /\ ~saving[t]

C1_Witness ==
    \E t \in Callers :
        /\ op[t] = "run"
        /\ CheckCompiled(t)
        /\ output[t].downloaded_items = <<>>
        /\ ret[t].kind = "report"

\* C2: every finished run() whose check-phase report lists N >= 1 items and
\* in which no fetch and no save failed has collected N DownloadMetadata
\* entries, called save once with Recipe.name as key, started the full phase
\* once and returned the report compiled after the full phase.
C2_FullPipeline ==
    \A t \in Callers :
        (/\ op[t] = "run"
         /\ pc[t] = "idle"
         /\ CheckCompiled(t)
         /\ Len(output[t].downloaded_items) >= 1
         /\ obs[t].failed = "-")
        => /\ Len(metadata[t]) = Len(output[t].downloaded_items)
           /\ obs[t].nSave = 1
           /\ obs[t].saveKeys = <<name>>
           /\ obs[t].nFull = 1
           /\ obs[t].rcFull # -1
           /\ ret[t] = Report(compile_report(file))

\* C2 restricted to reports whose items all carry a download_path: there the
\* pipeline runs through as C2 states, with one entry per download_path.
C2_WhenEveryItemHasPath ==
    \A t \in Callers :
        (/\ op[t] = "run"
         /\ pc[t] = "idle"
         /\ CheckCompiled(t)
         /\ Len(output[t].downloaded_items) >= 1
         /\ ~extract_raises(output[t].downloaded_items)
         /\ obs[t].failed = "-")
        => /\ Len(metadata[t]) = Len(output[t].downloaded_items)
           /\ \A i \in 1..Len(metadata[t]) :
                 metadata[t][i].file_path = output[t].downloaded_items[i].download_path
           /\ obs[t].nFetch = NumFetches(t)
           /\ obs[t].nSave = 1
           /\ obs[t].saveKeys = <<name>>
           /\ obs[t].nSaved = 1
           /\ obs[t].nFull = 1
           /\ obs[t].rcFull # -1
           /\ ret[t] = Report(compile_report(file))

\* C3: within one run() the report is compiled only after the check-phase
\* subprocess has exited, the save starts only after every fetch has
\* finished, the full-phase subprocess starts only after the save has
\* completed, and the save and the full phase are never both in progress.
C3_StepsOrdered ==
    \A t \in Callers :
        op[t] = "run"
        => /\ (running[t] = "check" => obs[t].nCompile = 0)
           /\ (obs[t].nCompile >= 1 => CheckCompiled(t))
           /\ (saving[t] => /\ pending[t] = {}
                            /\ obs[t].nFetch = NumFetches(t)
                            /\ running[t] = "none")
           /\ (running[t] = "full" =>
                 /\ ~saving[t]
                 /\ pending[t] = {}
                 /\ obs[t].nSave = 1
                 /\ obs[t].nSaved = 1)
           /\ ~(saving[t] /\ running[t] = "full")

C3_Witness ==
    \E t \in Callers :
        /\ op[t] = "run"
        /\ running[t] = "full"
        /\ Len(metadata[t]) = MaxItems

\* C4: whatever the exit code of the check phase, the report is compiled and
\* what run() does next is decided by the report's downloaded items alone;
\* whatever the exit code of the full phase, the compiled report is
\* returned; no call raises because of an exit code.
C4_ExitCodeIgnored ==
    \A t \in Callers :
        /\ (op[t] \in {"run", "run_check_phase", "run_full"} /\ ret[t].kind = "raised")
           => ret[t].exc \in {"KeyError", "FetchError", "SaveError"}
        /\ (op[t] = "run_check_phase" /\ CheckCompiled(t))
           => (pc[t] = "idle" /\ ret[t] = Report(output[t]) /\ obs[t].nCompile = 1)
        /\ (op[t] = "run" /\ CheckCompiled(t))
           => /\ obs[t].nCompile >= 1
              /\ IF output[t].downloaded_items = <<>>
                 THEN pc[t] = "idle" /\ ret[t] = Report(output[t])
                 ELSE IF extract_raises(output[t].downloaded_items)
                 THEN pc[t] = "idle" /\ ret[t] = Raised("KeyError")
                 ELSE pc[t] = "meta_wait" \/ obs[t].nFetch >= 1
        /\ (op[t] \in {"run", "run_full"} /\ obs[t].rcFull # -1)
           => (pc[t] = "idle" /\ ret[t] = Report(compile_report(file)))

C4_Witness ==
    \E t \in Callers :
        /\ op[t] = "run"
        /\ obs[t].rcCheck > 0
        /\ obs[t].rcFull > 0
        /\ ret[t].kind = "report"

\* C18: every report a call of compile_report, run_check_phase, run_full or
\* run has returned is the consolidation of what the report file holds on
\* disk, which is also what the RecipeReport has loaded: the file was read
\* again for that report, nothing read in an earlier phase was reused.
C18_ReportIsFresh ==
    \A t \in Callers :
        (pc[t] = "idle" /\ ret[t].kind = "report")
        => /\ op[t] \in {"compile_report", "run_check_phase", "run_full", "run"}
           /\ result = file
           /\ ret[t].report = consolidate_report(file)

\* A run() whose full phase left a report that differs from the one compiled
\* after the check phase, and that returned.
C18_Witness ==
    \E t \in Callers :
        /\ op[t] = "run"
        /\ pc[t] = "idle"
        /\ ret[t].kind = "report"
        /\ obs[t].nFull = 1
        /\ obs[t].nCompile = 2
        /\ ret[t].report # output[t]

\* C5: once a fetch has failed, run() has raised that error without saving
\* anything and without starting the full phase; once the save has failed,
\* run() has raised that error without starting the full phase; nothing was
\* tried a second time.
C5_FailurePropagates ==
    \A t \in Callers :
        /\ obs[t].failed = "fetch"
           => /\ pc[t] = "idle"
              /\ ret[t] = Raised("FetchError")
              /\ obs[t].nFull = 0
              /\ obs[t].nSave = 0
              /\ obs[t].nSaved = 0
              /\ obs[t].saveKeys = <<>>
              /\ metadata[t] = <<>>
              /\ ~saving[t]
              /\ running[t] = "none"
              /\ obs[t].nCheck = 1
              /\ obs[t].nFetch <= NumFetches(t)
        /\ obs[t].failed = "save"
           => /\ pc[t] = "idle"
              /\ ret[t] = Raised("SaveError")
              /\ obs[t].nFull = 0
              /\ running[t] = "none"
              /\ obs[t].nSave = 1
              /\ obs[t].nSaved = 0
              /\ obs[t].nCheck = 1
              /\ obs[t].nFetch = NumFetches(t)

C5_Witness ==
    \E t \in Callers :
        /\ obs[t].failed = "fetch"
        /\ obs[t].nFetch >= 2
        /\ orphans > 0

\* C6: between two updates of the trust info (and from construction to the
\* first), the verify-trust-info subprocess is invoked at most once.
C6_VerifyAtMostOnce ==
    [][verifyRan => \A t \in Callers :
                       ~(running[t] # "verify" /\ running'[t] = "verify")]_vars

C9_VerifyOutcome ==
    \A t \in Callers :
        (op[t] = "verify" /\ pc[t] = "idle" /\ obs[t].nVerify = 1)
        => /\ ret[t].kind = "value"
           /\ obs[t].rcTrust = 0 => (trusted = TRUSTED /\ ret[t].value = PyTrue)
           /\ obs[t].rcTrust # 0 => (trusted = FAILED /\ ret[t].value = PyFalse)
           /\ trusted # UNTESTED
           /\ ret[t].value # EnumValue(UNTESTED)

\* C10: the trust state changes only from UNTESTED to TRUSTED or FAILED, in
\* a verify(), and from any state to UNTESTED, in an update_trust_info();
\* never from TRUSTED to FAILED or from FAILED to TRUSTED.
C10_TrustTransitions ==
    [][/\ ~(assigned = "TRUSTED" /\ assigned' = "FAILED")
       /\ ~(assigned = "FAILED" /\ assigned' = "TRUSTED")
       /\ assigned' # assigned
          => \/ /\ assigned = "UNTESTED"
                /\ assigned' \in {"TRUSTED", "FAILED"}
                /\ \E t \in Callers : pc[t] = "verify_wait" /\ pc'[t] = "idle"
             \/ /\ assigned' = "UNTESTED"
                /\ \E t \in Callers : pc[t] = "update_wait" /\ pc'[t] = "idle"]_vars

\* ------------------------------------------------- settings assignments
\* The integers and the path values callers assign.
IntValues == (0 - MaxAssigned)..MaxAssigned
PathTexts == {"recipe_reports", "reports_b"}
PathValues == {PyStr(s) : s \in PathTexts} \cup {PyPath(s) : s \in PathTexts}

\* The record of an assignment `settings.<field> = value` and its outcome.
Assigned(field_name, value, outcome) ==
    [kind |-> "assign", field |-> field_name, value |-> value,
     outcome |-> outcome]

\* settings.cache_file = value
Set_cache_file(value) ==
    /\ settings' = [settings EXCEPT !.cache_file = _convert_to_path(value)]
    /\ last' = Assigned("cache_file", value, Value(PyNone))
    /\ UNCHANGED <<pipeline, tree, reports, now, recipes>>

\* settings.log_file = value
Set_log_file(value) ==
    /\ settings' = [settings EXCEPT !.log_file =
                        IF value # PyNone THEN _convert_to_path(value)
                        ELSE PyNone]
    /\ last' = Assigned("log_file", value, Value(PyNone))
    /\ UNCHANGED <<pipeline, tree, reports, now, recipes>>

\* settings.max_concurrency = value
Set_max_concurrency(value) ==
    /\ IF _validate_integer_is_positive(value) THEN
          /\ last' = Assigned("max_concurrency", value,
                              Raised(SettingsValidationError("max_concurrency")))
          /\ UNCHANGED settings
       ELSE
          /\ settings' = [settings EXCEPT !.max_concurrency = value]
          /\ last' = Assigned("max_concurrency", value, Value(PyNone))
    /\ UNCHANGED <<pipeline, tree, reports, now, recipes>>

\* settings.report_dir = value
Set_report_dir(value) ==
    /\ settings' = [settings EXCEPT !.report_dir = _convert_to_path(value)]
    /\ last' = Assigned("report_dir", value, Value(PyNone))
    /\ UNCHANGED <<pipeline, tree, reports, now, recipes>>

\* settings.verbosity_level = value
Set_verbosity_level(value) ==
    /\ IF _validate_integer_is_not_negative(value) THEN
          /\ last' = Assigned("verbosity_level", value,
                              Raised(SettingsValidationError("verbosity_level")))
          /\ UNCHANGED settings
       ELSE
          /\ settings' = [settings EXCEPT !.verbosity_level = value]
          /\ last' = Assigned("verbosity_level", value, Value(PyNone))
    /\ UNCHANGED <<pipeline, tree, reports, now, recipes>>

\* The settings object on its own: any sequence of assignments.
InitSettings == InitFor({}) /\ NoWorld

NextSettings ==
    \/ \E value \in PathValues : Set_cache_file(value)
    \/ \E value \in PathValues \cup {PyNone} : Set_log_file(value)
    \/ \E value \in IntValues : Set_max_concurrency(value)
    \/ \E value \in PathValues : Set_report_dir(value)
    \/ \E value \in IntValues : Set_verbosity_level(value)

SpecSettings == InitSettings /\ [][NextSettings]_vars

\* An assignment of a value the validators reject raises
\* SettingsValidationError for that field and changes no setting.
C19_Rejected ==
    LET c == last'
    IN  ( /\ c.kind = "assign"
          /\ \/ c.field = "max_concurrency" /\ c.value < 1
             \/ c.field = "verbosity_level" /\ c.value < 0 )
        => /\ c.outcome = Raised(SettingsValidationError(c.field))
           /\ settings' = settings

\* C19: from the default settings, after any sequence of assignments,
\* max_concurrency >= 1 and verbosity_level >= 0; assigning
\* max_concurrency < 1 or verbosity_level < 0 fails with
\* SettingsValidationError and leaves every setting unchanged.
C19_SettingsValidated ==
    /\ [](settings.max_concurrency >= 1 /\ settings.verbosity_level >= 0)
    /\ [][C19_Rejected]_vars

\* A rejected assignment of max_concurrency after other assignments took
\* effect.
C19_Witness ==
    /\ last.kind = "assign"
    /\ last.field = "max_concurrency"
    /\ last.value < 1
    /\ last.outcome.kind = "raised"
    /\ settings.max_concurrency # DefaultSettings.max_concurrency
    /\ settings.verbosity_level > 0

\* ------------------------------------------------------- recipe documents
\* A mapping is a function from its keys; the empty mapping is <<>>.
PyDict(m) == [type |-> "dict", items |-> m]

\* The documents recipe files hold: mappings with or without an Identifier
\* (possibly the empty string), with or without an Input (possibly without
\* NAME) and with or without Description, MinimumVersion and ParentRecipe
\* (possibly null), and a document that is a bare string.
IdentifierParts ==
    {<<>>, "Identifier" :> PyStr(""), "Identifier" :> PyStr("com.example.test")}
InputParts ==
    {<<>>, "Input" :> PyDict(<<>>),
     "Input" :> PyDict("NAME" :> PyStr("TestRecipe"))}
OptionalParts ==
    {<<>>,
     "Description" :> PyStr("Test recipe"),
     ("Description" :> PyStr("Test recipe"))
        @@ ("MinimumVersion" :> PyStr("2.0"))
        @@ ("ParentRecipe" :> PyStr("ParentRecipe.recipe")),
     ("Description" :> PyNone) @@ ("MinimumVersion" :> PyNone)
        @@ ("ParentRecipe" :> PyNone)}
Documents ==
    {PyDict(a @@ b @@ c) :
        a \in IdentifierParts, b \in InputParts, c \in OptionalParts}
        \cup {PyStr("invalid content")}

\* A property list has no null: the documents a plist file can hold.
HasNull(doc) ==
    /\ doc.type = "dict"
    /\ \E k \in DOMAIN doc.items : doc.items[k] = PyNone

\* The content of a recipe file: a well-formed document in one of the three
\* encodings ("yaml", "xml", "binary"), or a malformed one.  "bad_yaml" is
\* text the YAML parser rejects, "not_plist" text that is neither an XML nor
\* a binary property list, "bad_xml" a property list whose XML is not well
\* formed, "bad_value" an XML property list with an element the decoder
\* cannot convert (a <dict> key without value, <integer>xx</integer>).
Encoded(encoding, doc) == [syntax |-> encoding, value |-> doc]
Malformed(how) == [syntax |-> how]
GoodDocument ==
    PyDict(("Identifier" :> PyStr("com.example.test"))
           @@ ("Input" :> PyDict("NAME" :> PyStr("TestRecipe"))))
YamlTexts == {Encoded("yaml", d) : d \in Documents} \cup {Malformed("bad_yaml")}
PlistTexts ==
    {Encoded("xml", d) : d \in {e \in Documents : ~HasNull(e)}}
        \cup {Encoded("binary", GoodDocument)}
        \cup {Malformed(how) : how \in {"not_plist", "bad_xml", "bad_value"}}

\* An exception object: its class and its argument.
Exc(type, arg) == [type |-> type, arg |-> arg]
NoArg == "-"

\* The base class of each exception class that occurs.
Bases ==
    [InvalidFileException |-> "ValueError", UnicodeDecodeError |-> "ValueError",
     ValueError |-> "Exception", ExpatError |-> "Exception",
     ScannerError |-> "YAMLError", YAMLError |-> "Exception",
     KeyError |-> "Exception", TypeError |-> "Exception"]

\* isinstance(exc, cls), as an except clause tests it.
RECURSIVE IsInstance(_, _)
IsInstance(type, cls) ==
    \/ type = cls
    \/ type \in DOMAIN Bases /\ IsInstance(Bases[type], cls)

\* Path.read_text(): decodes the bytes as UTF-8.  The object table of a
\* binary property list holding a dict is not valid UTF-8.
read_text(text) ==
    IF text.syntax = "binary" THEN Raised(Exc("UnicodeDecodeError", NoArg))
    ELSE Value(text)

\* plistlib.loads(file_contents.encode())
plistlib_loads(text) ==
    CASE text.syntax = "xml" -> Value(text.value)
      [] text.syntax = "bad_xml" -> Raised(Exc("ExpatError", NoArg))
      [] text.syntax = "bad_value" -> Raised(Exc("ValueError", NoArg))
      [] OTHER -> Raised(Exc("InvalidFileException", NoArg))

\* yaml.safe_load(file_contents), for the texts YAML recipe files hold.
yaml_safe_load(text) ==
    CASE text.syntax = "yaml" -> Value(text.value)
      [] text.syntax = "bad_yaml" -> Raised(Exc("ScannerError", NoArg))

\* -------------------------------------------------------------- locator
\* Most recipe files under the lookup directories at one time.
MaxFiles == 2

\* A file name is held in pieces: an optional first piece without a dot,
\* then pieces that each start with a dot.  "Test.recipe.yaml" is
\* <<"Test", ".recipe", ".yaml">>, ".recipe" is <<".recipe">>, "" is <<>>.
\* The first piece "*" is the glob wildcard.
Concat(s, t) == s \o t

\* str.endswith(suffix)
endswith(s, suffix) ==
    /\ Len(s) >= Len(suffix)
    /\ SubSeq(s, Len(s) - Len(suffix) + 1, Len(s)) = suffix

\* The tuple find_recipe hands to endswith, in its order.
RecipeExtensions ==
    << <<".recipe">>, <<".recipe", ".plist">>, <<".recipe", ".yaml">> >>

HasRecipeExtension(asked) ==
    \E k \in 1..Len(RecipeExtensions) : endswith(asked, RecipeExtensions[k])

\* find_recipe's possible_filenames.
possible_filenames(asked) ==
    IF HasRecipeExtension(asked) THEN <<asked>>
    ELSE [k \in 1..Len(RecipeExtensions) |->
             Concat(asked, RecipeExtensions[k])]

\* AutoPkgPrefs().recipe_override_dirs and .recipe_search_dirs.
recipe_override_dirs == <<"overrides">>
recipe_search_dirs == <<"recipes">>

\* find_recipe's lookup_dirs.
lookup_dirs == Concat(recipe_override_dirs, recipe_search_dirs)

\* The names recipe files on disk have, and where a file can be: directly
\* in a lookup directory ("") or in a directory below it.
FileNames ==
    { <<"Test", ".recipe">>, <<"Test", ".recipe", ".plist">>,
      <<"Test", ".recipe", ".yaml">>, <<".recipe">> }
SubDirs == {"", "sub"}
FilePaths ==
    [dir : {lookup_dirs[i] : i \in 1..Len(lookup_dirs)}, sub : SubDirs,
     name : FileNames]

\* The path of a file of the tree.
PathOf(f) == [dir |-> f.dir, sub |-> f.sub, name |-> f.name]

\* The names callers ask for.
AskedNames ==
    { Concat(stem, ext) :
        stem \in {<<>>, <<"Test">>, <<"*">>},
        ext \in {<<>>, <<".recipe">>, <<".recipe", ".plist">>,
                 <<".recipe", ".yaml">>, <<".recipe", ".invalid">>} }

\* The name has no glob wildcard.
IsLiteral(asked) == asked = <<>> \/ asked[1] # "*"

\* Whether a file name matches a glob pattern: "*" matches any run of
\* characters, every other character matches itself.
fnmatch(file_name, pattern) ==
    IF IsLiteral(pattern) THEN file_name = pattern
    ELSE endswith(file_name, Tail(pattern))

\* path.rglob(filename): the files at any depth below the directory whose
\* name matches the pattern.  The order in which they are yielded is the
\* file system's.
rglob(dir, filename) ==
    {PathOf(f) : f \in {g \in tree : g.dir = dir /\ fnmatch(g.name, filename)}}

\* find_recipe's loops with the two `for` statements exchanged: file names
\* outside, directories inside.
RECURSIVE find_from_FilenameMajor(_, _, _)
find_from_FilenameMajor(asked, i, j) ==
    LET filenames == possible_filenames(asked)
    IN  IF j > Len(filenames) THEN {}
        ELSE IF i > Len(lookup_dirs) THEN
            find_from_FilenameMajor(asked, 1, j + 1)
        ELSE IF rglob(lookup_dirs[i], filenames[j]) # {} THEN
            rglob(lookup_dirs[i], filenames[j])
        ELSE find_from_FilenameMajor(asked, i + 1, j)

\* find_recipe's loops from directory i and file name j on: the paths the
\* first non-empty rglob can yield first, or {} when the loops run out.
RECURSIVE find_from(_, _, _)
find_from(asked, i, j) ==
    LET filenames == possible_filenames(asked)
    IN  IF i > Len(lookup_dirs) THEN {}
        ELSE IF j > Len(filenames) THEN find_from(asked, i + 1, 1)
        ELSE IF rglob(lookup_dirs[i], filenames[j]) # {} THEN
            rglob(lookup_dirs[i], filenames[j])
        ELSE find_from(asked, i, j + 1)

RecipeLookupException(asked) ==
    [type |-> "RecipeLookupException", arg |-> asked]

\* Recipe.find_recipe(recipe_name): the outcomes it can have.
find_recipe(asked) ==
    IF find_from(asked, 1, 1) = {} THEN
        {Raised(RecipeLookupException(asked))}
    ELSE {Value(p) : p \in find_from(asked, 1, 1)}

\* The record of a call find_recipe(recipe_name) and its outcome.
Looked(asked, outcome) ==
    [kind |-> "find", name |-> asked, outcome |-> outcome]

\* Recipe.find_recipe(recipe_name)
Call_find_recipe(asked) ==
    /\ \E outcome \in find_recipe(asked) :
          last' = Looked(asked, outcome)
    /\ UNCHANGED <<pipeline, settings, tree, reports, now, recipes>>

\* The text of a recipe file that lookups do not read.
AnyText == Encoded("xml", GoodDocument)

\* The trees of at most MaxFiles recipe files, every file holding `text`.
Trees(text) ==
    { {[dir |-> p.dir, sub |-> p.sub, name |-> p.name, text |-> text] : p \in P} :
        P \in {Q \in SUBSET FilePaths : Cardinality(Q) <= MaxFiles} }

\* The locator on its own: any tree of recipe files, any sequence of lookups.
InitFind ==
    /\ InitFor({})
    /\ settings = DefaultSettings
    /\ last = [kind |-> "none"]
    /\ tree \in Trees(AnyText)
    /\ reports = {}
    /\ now = 1
    /\ recipes = <<>>

NextFind == \E asked \in AskedNames : Call_find_recipe(asked)

SpecFind == InitFind /\ [][NextFind]_vars

\* The files of the tree that carry the given name.
Named(file_name) == {PathOf(f) : f \in {g \in tree : g.name = file_name}}

\* The last lookup of a name with a recognised extension found a path whose
\* file name is the name asked for when the tree holds such a file, and
\* raised the lookup error for that name when it holds none.
C12_Exact ==
    (last.kind = "find" /\ HasRecipeExtension(last.name))
    => IF Named(last.name) # {}
       THEN last.outcome.kind = "value" /\ last.outcome.value \in Named(last.name)
       ELSE last.outcome = Raised(RecipeLookupException(last.name))

\* The last lookup did not return a file whose name is a proper beginning
\* of the name asked for.
C12_NoShorterFile ==
    (last.kind = "find" /\ last.outcome.kind = "value")
    => LET found == last.outcome.value.name
       IN  ~(Len(found) < Len(last.name)
             /\ SubSeq(last.name, 1, Len(found)) = found)

\* C12: for every recipe name that ends in .recipe, .recipe.plist or
\* .recipe.yaml, find_recipe returns a path whose file name equals the name
\* when such a file exists under an override or search directory (at any
\* depth) and raises the lookup error otherwise; it never returns a file
\* whose name is only a beginning of the name asked for, so 'Test.recipe.invalid'
\* is not matched to 'Test.recipe'.
C12_LiteralLookup == C12_Exact /\ C12_NoShorterFile

\* C12 for the names without a glob wildcard.
C12_WhenNameIsLiteral ==
    (last.kind = "find" /\ IsLiteral(last.name)) => C12_LiteralLookup

\* C13: for every recipe name without a recognised extension, the override
\* directories are visited before the search directories and in each
\* directory the candidates name+'.recipe', name+'.recipe.plist' and
\* name+'.recipe.yaml' are tried in that order: what find_recipe returns is
\* a match of the first (directory, candidate) pair, directories first, that
\* has a match, and it raises the lookup error when no pair has one.
C13_DirectoryMajor ==
    (last.kind = "find" /\ ~HasRecipeExtension(last.name))
    => LET dirs == Concat(recipe_override_dirs, recipe_search_dirs)
           cands == << Concat(last.name, <<".recipe">>),
                       Concat(last.name, <<".recipe", ".plist">>),
                       Concat(last.name, <<".recipe", ".yaml">>) >>
           Pairs == (1..Len(dirs)) \X (1..3)
           Hit(q) == rglob(dirs[q[1]], cands[q[2]]) # {}
           Before(q, r) == q[1] < r[1] \/ (q[1] = r[1] /\ q[2] < r[2])
       IN  IF \E q \in Pairs : Hit(q)
           THEN /\ last.outcome.kind = "value"
                /\ \E r \in Pairs :
                      /\ last.outcome.value \in rglob(dirs[r[1]], cands[r[2]])
                      /\ \A q \in Pairs : Before(q, r) => ~Hit(q)
           ELSE last.outcome = Raised(RecipeLookupException(last.name))

\* 'Test' was looked up while an override directory held Test.recipe.yaml
\* and a search directory held Test.recipe: the file found is the one in the
\* override directory.
C13_Witness ==
    /\ last.kind = "find"
    /\ last.name = <<"Test">>
    /\ \E f \in tree : f.dir = "overrides" /\ f.name = <<"Test", ".recipe", ".yaml">>
    /\ \E f \in tree : f.dir = "recipes" /\ f.name = <<"Test", ".recipe">>
    /\ last.outcome.kind = "value"
    /\ last.outcome.value.dir = "overrides"
    /\ last.outcome.value.name = <<"Test", ".recipe", ".yaml">>

\* --------------------------------------------------------- construction
\* Largest suffix of a report file that is on disk before any construction.
MaxSuffix == 1
\* Last minute the clock reaches.
MaxMinute == 2

\* An attribute __init__ has not assigned.
Unset == [type |-> "unset"]

\* Path.suffix of a file name: the last piece, when it is not all of the name.
suffix(file_name) ==
    IF Len(file_name) > 1 THEN file_name[Len(file_name)] ELSE ""

RecipeFormatException(extension) == Exc("RecipeFormatException", extension)
InvalidPlistContents(located) == Exc("InvalidPlistContents", located)
InvalidYamlContents(located) == Exc("InvalidYamlContents", located)
RecipeInputException(located) == Exc("RecipeInputException", located)

\* format() with the property-list decoder as the fallback of every
\* extension other than .yaml.
format_PlistByDefault(located) ==
    IF suffix(located.name) = ".yaml" THEN Value("YAML") ELSE Value("PLIST")

\* Recipe.format(), for self._path = located.
format(located) ==
    IF suffix(located.name) = ".yaml" THEN Value("YAML")
    ELSE IF suffix(located.name) \in {".plist", ".recipe"} THEN Value("PLIST")
    ELSE Raised(RecipeFormatException(suffix(located.name)))

\* The content of the file at a path.
TextAt(located) == (CHOOSE f \in tree : PathOf(f) = located).text

\* Recipe._get_contents_plist: only plistlib.InvalidFileException is caught.
_get_contents_plist(located, file_contents) ==
    LET loaded == plistlib_loads(file_contents)
    IN  IF loaded.kind = "raised"
           /\ IsInstance(loaded.exc.type, "InvalidFileException")
        THEN Raised(InvalidPlistContents(located))
        ELSE loaded

\* Recipe._get_contents_yaml: yaml.YAMLError is caught.
_get_contents_yaml(located, file_contents) ==
    LET loaded == yaml_safe_load(file_contents)
    IN  IF loaded.kind = "raised" /\ IsInstance(loaded.exc.type, "YAMLError")
        THEN Raised(InvalidYamlContents(located))
        ELSE loaded

\* Recipe._get_contents, for self._path = located and self._format = fmt.
_get_contents(located, fmt) ==
    LET file_contents == read_text(TextAt(located))
    IN  IF file_contents.kind = "raised" THEN file_contents
        ELSE IF fmt = "YAML" THEN _get_contents_yaml(located, file_contents.value)
        ELSE _get_contents_plist(located, file_contents.value)

\* report_dir / f"report_{now_str}_{self.name}.plist": the directory, the
\* time stamp and the recipe file name, with no suffix on the stem.
report_path(report_dir, now_str, recipe_file_name) ==
    [dir |-> report_dir.text, stamp |-> now_str, recipe |-> recipe_file_name,
     suffix |-> 0]

\* original_report_path.with_stem(f"{original_report_path.stem}_{counter}")
with_stem(original, counter) == [original EXCEPT !.suffix = counter]

\* report_path.exists()
exists(candidate) == candidate \in reports

\* The scan with `if` in place of `while`: one step at most.
unused_from_Once(candidate, original, counter) ==
    IF exists(candidate) THEN with_stem(original, counter) ELSE candidate

\* __init__'s while loop, entered with report_path = candidate and the
\* given counter: the path it ends with.
RECURSIVE unused_from(_, _, _)
unused_from(candidate, original, counter) ==
    IF exists(candidate)
    THEN unused_from(with_stem(original, counter), original, counter + 1)
    ELSE candidate

\* Recipe.__init__(recipe_name, report_dir), given the outcome of its call
\* of find_recipe: the attributes of the object, or the exception raised,
\* and the steps it went through.
Recipe(asked, report_dir, found) ==
    LET none == [asked |-> asked, report_dir |-> report_dir, outcome |-> found,
                 path |-> Unset, format |-> Unset, contents |-> Unset,
                 report |-> Unset, steps |-> <<"find_recipe">>]
    IN  IF found.kind = "raised" THEN none
        ELSE
        LET located == found.value
            fmt == format(located)
        IN  IF fmt.kind = "raised" THEN
                [none EXCEPT !.outcome = fmt, !.path = located,
                             !.steps = <<"find_recipe", "format">>]
            ELSE
            LET loaded == _get_contents(located, fmt.value)
                dir == IF report_dir = PyNone THEN settings.report_dir
                       ELSE report_dir
                original == report_path(dir, now, located.name)
            IN  IF loaded.kind = "raised" THEN
                    [none EXCEPT !.outcome = loaded, !.path = located,
                                 !.format = fmt.value,
                                 !.steps = <<"find_recipe", "format",
                                             "_get_contents">>]
                ELSE
                    [none EXCEPT !.outcome = Value(PyNone), !.path = located,
                                 !.format = fmt.value,
                                 !.contents = loaded.value,
                                 !.report = unused_from(original, original, 1),
                                 !.steps = <<"find_recipe", "format",
                                             "_get_contents", "report_path">>]

\* The object exists: __init__ returned.
Constructed(r) == r.outcome.kind = "value"

\* Recipe.identifier
identifier(r) ==
    IF r.contents.type # "dict" THEN Raised(Exc("TypeError", NoArg))
    ELSE IF "Identifier" \notin DOMAIN r.contents.items
    THEN Raised(Exc("KeyError", "Identifier"))
    ELSE Value(r.contents.items["Identifier"])

\* input_name with a default in place of the exception.
input_name_Default(r) ==
    IF r.contents.type # "dict" THEN Raised(Exc("TypeError", NoArg))
    ELSE IF "Input" \notin DOMAIN r.contents.items
    THEN Value(PyStr(""))
    ELSE IF "NAME" \notin DOMAIN r.contents.items["Input"].items
    THEN Value(PyStr(""))
    ELSE Value(r.contents.items["Input"].items["NAME"])

\* Recipe.input_name: a KeyError of either subscript becomes
\* RecipeInputException(self._path).
input_name(r) ==
    IF r.contents.type # "dict" THEN Raised(Exc("TypeError", NoArg))
    ELSE IF "Input" \notin DOMAIN r.contents.items
    THEN Raised(RecipeInputException(r.path))
    ELSE IF "NAME" \notin DOMAIN r.contents.items["Input"].items
    THEN Raised(RecipeInputException(r.path))
    ELSE Value(r.contents.items["Input"].items["NAME"])

\* The body shared by Recipe.description, Recipe.minimum_version and
\* Recipe.parent_recipe: "" when self._contents[key] is None, else
\* self._contents[key]; the subscript raises KeyError for a missing key.
_contents_or_empty(r, key) ==
    IF r.contents.type # "dict" THEN Raised(Exc("TypeError", NoArg))
    ELSE IF key \notin DOMAIN r.contents.items
    THEN Raised(Exc("KeyError", key))
    ELSE IF r.contents.items[key] = PyNone THEN Value(PyStr(""))
    ELSE Value(r.contents.items[key])

\* Recipe.description
description(r) == _contents_or_empty(r, "Description")

\* Recipe.minimum_version
minimum_version(r) == _contents_or_empty(r, "MinimumVersion")

\* Recipe.parent_recipe
parent_recipe(r) == _contents_or_empty(r, "ParentRecipe")

\* The Recipe objects a run constructs, in the order of their construction.
Objects == {1, 2}

\* RecipeReport(report_path): the files its constructor creates.  The report
\* file is written by the external tool only.
RecipeReport(report_file) == {}

\* Recipe(recipe_name, report_dir)
Construct(asked, report_dir) ==
    /\ Len(recipes) + 1 \in Objects
    /\ \E found \in find_recipe(asked) :
          LET r == Recipe(asked, report_dir, found)
          IN  /\ recipes' = Append(recipes, r)
              /\ reports' = IF Constructed(r)
                            THEN reports \cup RecipeReport(r.report)
                            ELSE reports
    /\ UNCHANGED <<pipeline, settings, last, tree, now>>

\* recipes[i].input_name
Get_input_name(i) ==
    /\ i \in DOMAIN recipes
    /\ Constructed(recipes[i])
    /\ last' = [kind |-> "input_name", recipe |-> i,
                outcome |-> input_name(recipes[i])]
    /\ UNCHANGED <<pipeline, settings, tree, reports, now, recipes>>

\* recipes[i].description, recipes[i].minimum_version or
\* recipes[i].parent_recipe
Get_property(i, accessor) ==
    /\ i \in DOMAIN recipes
    /\ Constructed(recipes[i])
    /\ last' = [kind |-> accessor, recipe |-> i,
                outcome |-> CASE accessor = "description" -> description(recipes[i])
                              [] accessor = "minimum_version" -> minimum_version(recipes[i])
                              [] accessor = "parent_recipe" -> parent_recipe(recipes[i])]
    /\ UNCHANGED <<pipeline, settings, tree, reports, now, recipes>>

\* A minute passes.
Tick ==
    /\ now < MaxMinute
    /\ now' = now + 1
    /\ UNCHANGED <<pipeline, settings, last, tree, reports, recipes>>

\* The external tool, run for recipes[i] with --report-plist=<its report
\* path>, writes the report file.
ToolWrites(i) ==
    /\ i \in DOMAIN recipes
    /\ Constructed(recipes[i])
    /\ ~exists(recipes[i].report)
    /\ reports' = reports \cup {recipes[i].report}
    /\ UNCHANGED <<pipeline, settings, last, tree, now, recipes>>

\* The names and report directories Recipe(...) is called with.
ConstructNames == {<<>>, <<"Test">>, <<"Test", ".recipe">>}
ReportDirArgs == {PyNone, PyPath("reports_b")}

\* One recipe file in a lookup directory, with any name and any content a
\* file of that name can have.
TextsFor(file_name) ==
    IF suffix(file_name) = ".yaml" THEN YamlTexts
    ELSE IF suffix(file_name) = "" THEN {AnyText}
    ELSE PlistTexts
ParseTrees ==
    { {[dir |-> d, sub |-> "", name |-> n, text |-> t]} :
        d \in {"overrides", "recipes"}, n \in FileNames,
        t \in UNION {TextsFor(m) : m \in FileNames} }

\* Construction and the accessors: any single recipe file, no report yet.
InitParse ==
    /\ InitFor({})
    /\ settings = DefaultSettings
    /\ last = [kind |-> "none"]
    /\ tree \in {T \in ParseTrees : \A f \in T : f.text \in TextsFor(f.name)}
    /\ reports = {}
    /\ now = 1
    /\ recipes = <<>>

NextParse ==
    \/ \E asked \in ConstructNames, report_dir \in ReportDirArgs :
          Construct(asked, report_dir)
    \/ \E i \in Objects : Get_input_name(i)
    \/ \E i \in Objects,
          accessor \in {"description", "minimum_version", "parent_recipe"} :
          Get_property(i, accessor)

SpecParse == InitParse /\ [][NextParse]_vars

\* The report files earlier runs left for Test.recipe in the first minute.
LeftBehind ==
    [dir : PathTexts, stamp : {1}, recipe : {<<"Test", ".recipe">>},
     suffix : 0..MaxSuffix]

\* Construction and the report files: one well-formed Test.recipe, any
\* report files left behind.
InitReport ==
    /\ InitFor({})
    /\ settings = DefaultSettings
    /\ last = [kind |-> "none"]
    /\ tree = {[dir |-> "recipes", sub |-> "", name |-> <<"Test", ".recipe">>,
                text |-> AnyText]}
    /\ reports \in SUBSET LeftBehind
    /\ now = 1
    /\ recipes = <<>>

NextReport ==
    \/ \E asked \in ConstructNames, report_dir \in ReportDirArgs :
          Construct(asked, report_dir)
    \/ \E i \in Objects : ToolWrites(i)
    \/ \E s \in PathTexts : Set_report_dir(PyPath(s))
    \/ Tick

SpecReport == InitReport /\ [][NextReport]_vars

\* C11: two Recipe objects constructed for the same recipe file name, with
\* the same report directory and in the same minute, have distinct report
\* paths, whether or not the report file of the first was written before
\* the second was constructed: no report path is shared by two objects.
C11_DistinctReportPaths ==
    \A i, j \in DOMAIN recipes :
        ( /\ i < j
          /\ Constructed(recipes[i]) /\ Constructed(recipes[j])
          /\ recipes[i].path.name = recipes[j].path.name
          /\ recipes[i].report.dir = recipes[j].report.dir
          /\ recipes[i].report.stamp = recipes[j].report.stamp )
        => recipes[i].report # recipes[j].report

\* C11 for an earlier object whose report file is on disk when the later
\* one is constructed: the later one gets another path.
C11_WhenReportIsOnDisk ==
    [][ \A i \in DOMAIN recipes :
          ( /\ Len(recipes') = Len(recipes) + 1
            /\ Constructed(recipes[i])
            /\ Constructed(recipes'[Len(recipes')])
            /\ exists(recipes[i].report) )
          => recipes'[Len(recipes')].report # recipes[i].report ]_vars

\* __init__ went as far as reading the file it located.
ReachedParse(r) == Len(r.steps) >= 3

\* C14: every Recipe that was constructed has an identifier that is present
\* and not empty; a document without Identifier, or with an empty one,
\* makes the construction fail.
C14_IdentifierPresent ==
    \A i \in DOMAIN recipes :
        Constructed(recipes[i])
        => /\ identifier(recipes[i]).kind = "value"
           /\ identifier(recipes[i]).value.type = "str"
           /\ identifier(recipes[i]).value.text # ""

\* C14 for the documents that declare a non-empty Identifier.
C14_WhenDeclared ==
    \A i \in DOMAIN recipes :
        ( /\ Constructed(recipes[i])
          /\ recipes[i].contents.type = "dict"
          /\ "Identifier" \in DOMAIN recipes[i].contents.items )
        => identifier(recipes[i]) = Value(recipes[i].contents.items["Identifier"])

\* C15: parsing has three outcomes.  A well-formed document yields the
\* document (so its Identifier is the declared one); a malformed YAML
\* document raises InvalidYamlContents and a malformed property list raises
\* InvalidPlistContents, each carrying the path of the file: no other
\* exception comes out of the decoders.
C15_ThreeOutcomes ==
    \A i \in DOMAIN recipes :
        ReachedParse(recipes[i])
        => LET r == recipes[i]
               text == TextAt(r.path)
           IN  IF text.syntax \in {"yaml", "xml", "binary"}
               THEN Constructed(r) /\ r.contents = text.value
               ELSE IF r.format = "YAML"
               THEN r.outcome = Raised(InvalidYamlContents(r.path))
               ELSE r.outcome = Raised(InvalidPlistContents(r.path))

\* C15 without the property lists that plistlib rejects with an exception
\* other than InvalidFileException, and without binary property lists.
C15_WhenCaught ==
    \A i \in DOMAIN recipes :
        ( /\ ReachedParse(recipes[i])
          /\ TextAt(recipes[i].path).syntax \notin {"bad_xml", "bad_value", "binary"} )
        => LET r == recipes[i]
               text == TextAt(r.path)
           IN  IF text.syntax \in {"yaml", "xml"}
               THEN Constructed(r) /\ r.contents = text.value
               ELSE IF r.format = "YAML"
               THEN r.outcome = Raised(InvalidYamlContents(r.path))
               ELSE r.outcome = Raised(InvalidPlistContents(r.path))

\* The format the last extension of a file name stands for, "" for none.
FormatOfExtension(extension) ==
    IF extension = ".yaml" THEN "YAML"
    ELSE IF extension \in {".plist", ".recipe"} THEN "PLIST"
    ELSE ""

\* C16: the format is a function of the last extension of the located
\* file: .yaml gives YAML, .plist and .recipe give PLIST; with any other
\* extension the construction fails with RecipeFormatException carrying
\* that extension, before the file is read or parsed and before a report
\* path is computed.
C16_FormatByExtension ==
    /\ \A n \in FileNames \cup AskedNames :
          LET e == IF Len(n) > 1 THEN n[Len(n)] ELSE ""
          IN  format([name |-> n]) =
                 IF FormatOfExtension(e) # "" THEN Value(FormatOfExtension(e))
                 ELSE Raised(RecipeFormatException(e))
    /\ \A i \in DOMAIN recipes :
          LET r == recipes[i]
          IN  r.path # Unset =>
                LET e == IF Len(r.path.name) > 1 THEN r.path.name[Len(r.path.name)]
                         ELSE ""
                IN  IF FormatOfExtension(e) # ""
                    THEN r.format = FormatOfExtension(e)
                    ELSE /\ r.outcome = Raised(RecipeFormatException(e))
                         /\ r.steps = <<"find_recipe", "format">>
                         /\ r.contents = Unset
                         /\ r.report = Unset

\* A construction that located a file and failed with the format error.
C16_Witness ==
    \E i \in DOMAIN recipes :
        /\ recipes[i].path # Unset
        /\ recipes[i].outcome.kind = "raised"
        /\ recipes[i].outcome.exc.type = "RecipeFormatException"

\* The document of r is a mapping whose Input is a mapping.
HasInput(r) ==
    /\ r.contents.type = "dict"
    /\ "Input" \in DOMAIN r.contents.items

\* C17: a recipe file whose Input mapping has no NAME key is constructed
\* all the same; every access of input_name on such an object raises
\* RecipeInputException, and on an object whose Input has a NAME every
\* access returns that value.
C17_InputName ==
    /\ \A i \in DOMAIN recipes :
          LET r == recipes[i]
          IN  ( /\ ReachedParse(r)
                /\ TextAt(r.path).syntax \in {"yaml", "xml"}
                /\ TextAt(r.path).value.type = "dict"
                /\ "Input" \in DOMAIN TextAt(r.path).value.items )
              => Constructed(r)
    /\ (last.kind = "input_name" /\ HasInput(recipes[last.recipe]))
       => LET r == recipes[last.recipe]
              Input == r.contents.items["Input"].items
          IN  IF "NAME" \in DOMAIN Input
              THEN last.outcome = Value(Input["NAME"])
              ELSE /\ last.outcome.kind = "raised"
                   /\ last.outcome.exc = RecipeInputException(r.path)

\* input_name was read on an object constructed from a document whose Input
\* has no NAME.
C17_Witness ==
    /\ last.kind = "input_name"
    /\ HasInput(recipes[last.recipe])
    /\ "NAME" \notin DOMAIN recipes[last.recipe].contents.items["Input"].items
    /\ last.outcome.kind = "raised"

\* What a successful construction, seen as a step, does about the report
\* path of the new object.
C20_Step ==
    ( /\ Len(recipes') = Len(recipes) + 1
      /\ Constructed(recipes'[Len(recipes')]) )
    => LET r == recipes'[Len(recipes')]
           dir == IF r.report_dir = PyNone THEN settings.report_dir.text
                  ELSE r.report_dir.text
           Named_k(k) == [dir |-> dir, stamp |-> now, recipe |-> r.path.name,
                          suffix |-> k]
       IN  /\ r.report \notin reports
           /\ \E k \in 0..Cardinality(reports) :
                 /\ r.report = Named_k(k)
                 /\ \A j \in 0..(k - 1) : Named_k(j) \in reports

\* C20: when a construction succeeds, the report path lies directly in the
\* report directory passed in, or in settings.report_dir as it is at that
\* moment when none was passed, and names no file that exists then: it is
\* report_<timestamp>_<recipe file name>.plist when that is unused, and
\* otherwise carries the suffix _k on the stem for the smallest k >= 1 whose
\* name is unused.
C20_ReportPathUnused == [][C20_Step]_vars

\* An object constructed without a report directory after
\* settings.report_dir was changed, whose report path carries a suffix
\* above 1.
C20_Witness ==
    \E i \in DOMAIN recipes :
        /\ Constructed(recipes[i])
        /\ recipes[i].report_dir = PyNone
        /\ recipes[i].report.dir # DefaultSettings.report_dir.text
        /\ recipes[i].report.suffix > 1

\* ------------------------------------------ metadata collection properties
\* The artifact paths caller t's run() collects metadata for.
CollectedPaths(t) == _extract_download_paths(output[t].downloaded_items)

\* C21: a metadata collection for N paths issues exactly the 3N fetches
\* (one per path position and attribute), each of which is either still in
\* flight or has finished once, in any order; the RecipeCache exists only
\* when all 3N have finished, and its i-th entry holds, for each of the three
\* attributes, what the fetch of that attribute for the i-th path returned.
C21_MetadataCollection ==
    \A t \in Callers :
        /\ pc[t] = "meta_wait"
           => /\ pending[t] # {}
              /\ pending[t] \cup DOMAIN fetched[t].results
                    = (1..Len(CollectedPaths(t))) \X Attrs
              /\ pending[t] \cap DOMAIN fetched[t].results = {}
              /\ obs[t].nFetch = Cardinality(DOMAIN fetched[t].results)
              /\ \A f \in DOMAIN fetched[t].results :
                    fetched[t].results[f] = FileAttr(CollectedPaths(t)[f[1]], f[2])
              /\ metadata[t] = <<>>
        /\ metadata[t] # <<>>
           => /\ pending[t] = {}
              /\ obs[t].nFetch = 3 * Len(CollectedPaths(t))
              /\ Len(metadata[t]) = Len(CollectedPaths(t))
              /\ \A i \in 1..Len(metadata[t]) :
                    LET p == metadata[t][i].file_path
                    IN  /\ metadata[t][i].etag = FileAttr(p, "etag")
                        /\ metadata[t][i].file_size = FileAttr(p, "file_size")
                        /\ metadata[t][i].last_modified = FileAttr(p, "last_modified")

\* A collection for two different artifacts has returned its RecipeCache.
C21_Witness ==
    \E t \in Callers :
        /\ pc[t] = "save_wait"
        /\ Len(metadata[t]) = 2
        /\ metadata[t][1].file_path # metadata[t][2].file_path
        /\ obs[t].nFetch = 6

\* ------------------------------------------------ overlapping trust calls
\* Two coroutines share the Recipe object and call verify_trust_info and
\* update_trust_info on it; either may be suspended in its subprocess while
\* the other runs.
InitTrust == InitFor({1, 2}) /\ NoWorld

NextTrust ==
    \/ \E t \in Callers : CallVerify(t)
    \/ \E t \in Callers : VerifyExit(t)
    \/ \E t \in Callers : CallUpdate(t)
    \/ \E t \in Callers : UpdateExit(t)

SpecTrust == InitTrust /\ [][NextTrust]_vars

\* C22: while a verify_trust_info() call is suspended in its subprocess and
\* no update has completed since that subprocess was started, no other call
\* starts the verify-trust-info subprocess.
C22_VerifyOnceWhenOverlapping ==
    [][(verifyRan /\ \E u \in Callers : running[u] = "verify")
       => \A t \in Callers : ~(running[t] # "verify" /\ running'[t] = "verify")]_vars

\* ----------------------------------------------- verbosity of the commands
\* One caller starts the check phase, the full phase and the trust commands
\* of the Recipe while the verbosity level of the settings is assigned.
InitCmd == InitFor({1}) /\ NoWorld

NextCmd ==
    \/ \E value \in IntValues : Set_verbosity_level(value)
    \/ \E t \in Callers : CallRunCheckPhase(t)
    \/ \E t \in Callers : CheckExit(t)
    \/ \E t \in Callers : CallRunFull(t)
    \/ \E t \in Callers : FullExit(t)
    \/ \E t \in Callers : CallVerify(t)
    \/ \E t \in Callers : VerifyExit(t)
    \/ \E t \in Callers : CallUpdate(t)
    \/ \E t \in Callers : UpdateExit(t)

SpecCmd == InitCmd /\ [][NextCmd]_vars

\* An argument that is a verbosity flag: "-" followed by one or more "v".
IsVerbosityFlag(arg) ==
    /\ Len(arg) >= 2
    /\ arg[1] = "-"
    /\ \A k \in 2..Len(arg) : arg[k] = "v"

\* The number of "v"s of each verbosity flag of a command line, in order.
VerbosityFlags(cmd) ==
    LET flags == SelectSeq(cmd, IsVerbosityFlag)
    IN  [k \in 1..Len(flags) |-> Len(flags[k]) - 1]

\* The flags of a command line that carries verbosity level n.
FlagsFor(n) == IF n >= 1 THEN <<n>> ELSE <<>>

\* A step in which caller t starts a subprocess of the given kinds.
Starts(t, kinds) == running[t] = "none" /\ running'[t] \in kinds

\* C23: the command line a check phase or a full phase is started with has
\* one verbosity flag of exactly L "v"s when the verbosity level L is at
\* least 1 and none when L is 0, the same flags as the verify-trust-info
\* command line built with the same settings.
C23_RunCarriesVerbosity ==
    [][\A t \in Callers :
          Starts(t, {"check", "full"})
          => /\ obs'[t].cmd[2] = <<"run">>
             /\ VerbosityFlags(obs'[t].cmd) = FlagsFor(settings.verbosity_level)
             /\ VerbosityFlags(obs'[t].cmd) = VerbosityFlags(verify_trust_info_cmd)]_vars

\* C23 as the code has it: the run command line carries the verbosity level
\* lowered by one (a flag of L - 1 "v"s for L >= 2, none for L <= 1), the
\* verify-trust-info command line carries the level itself.
C23_RunVerbosityOneLess ==
    [][\A t \in Callers :
          /\ Starts(t, {"check", "full"})
             => /\ obs'[t].cmd[2] = <<"run">>
                /\ VerbosityFlags(obs'[t].cmd)
                      = FlagsFor(settings.verbosity_level - 1)
                /\ (<<"--check">> \in {obs'[t].cmd[k] : k \in DOMAIN obs'[t].cmd})
                      <=> (running'[t] = "check")
          /\ Starts(t, {"verify"})
             => /\ obs'[t].cmd[2] = <<"verify-trust-info">>
                /\ VerbosityFlags(obs'[t].cmd) = FlagsFor(settings.verbosity_level)]_vars

\* A check phase started at verbosity level 2: its command line has "-v".
C23_Witness ==
    \E t \in Callers :
        /\ running[t] = "check"
        /\ settings.verbosity_level = 2
        /\ <<"-", "v">> \in {obs[t].cmd[k] : k \in DOMAIN obs[t].cmd}

\* ------------------------------------------------ download path extraction
\* C24: no run() ends with the KeyError of a download_path lookup: where
\* the check-phase report has an entry without a download_path, the
\* extraction yields the empty list and run() goes on without fetches.
C24_ExtractionNeverFails ==
    \A t \in Callers :
        (op[t] = "run" /\ CheckCompiled(t))
        => /\ ret[t] # Raised("KeyError")
           /\ extract_raises(output[t].downloaded_items)
              => (pending[t] = {} /\ obs[t].nFetch = 0 /\ obs[t].failed = "-")

\* ------------------------------------------------------ optional fields
\* The key of the recipe document an accessor reads.
FieldOf(accessor) ==
    CASE accessor = "description" -> "Description"
      [] accessor = "minimum_version" -> "MinimumVersion"
      [] accessor = "parent_recipe" -> "ParentRecipe"

\* C25: description, minimum_version and parent_recipe of a constructed
\* recipe (whose document is a mapping) return a value and never raise: the
\* empty string when the document has no such key or has it with a null
\* value, the document's value otherwise.
C25_OptionalAccessors ==
    (/\ last.kind \in {"description", "minimum_version", "parent_recipe"}
     /\ recipes[last.recipe].contents.type = "dict")
    => LET doc == recipes[last.recipe].contents
           has == /\ FieldOf(last.kind) \in DOMAIN doc.items
                  /\ doc.items[FieldOf(last.kind)] # PyNone
       IN  /\ last.outcome.kind = "value"
           /\ last.outcome.value = IF has THEN doc.items[FieldOf(last.kind)]
                                   ELSE PyStr("")

\* C25 for the documents that have the key, as a value or as null: there
\* the accessors return the value, or the empty string for null.
C25_WhenKeyIsPresent ==
    last.kind \in {"description", "minimum_version", "parent_recipe"}
    => LET doc == recipes[last.recipe].contents
       IN  (doc.type = "dict" /\ FieldOf(last.kind) \in DOMAIN doc.items)
           => /\ last.outcome.kind = "value"
              /\ last.outcome.value
                    = IF doc.items[FieldOf(last.kind)] = PyNone THEN PyStr("")
                      ELSE doc.items[FieldOf(last.kind)]

\* C26: a verify_trust_info() call during whose subprocess another
\* coroutine called update_trust_info() and got its result, with no
\* verification started since, leaves the trust state UNTESTED when it ends:
\* the outcome computed before the update is not recorded.
C26_NoResultAcrossInvalidation ==
    [][\A u \in Callers :
          (/\ pc[u] = "verify_wait"
           /\ pc'[u] = "idle"
           /\ obs[u].invalidated = "done"
           /\ ~verifyRan)
          => trusted' = UNTESTED]_vars

\* C27: the metadata list of a RecipeCache has one entry per entry of the
\* downloaded items of the check-phase report, in the same order, whatever
\* the order in which the fetches finished: the i-th file_path is the i-th
\* download_path, a repeated download_path is repeated.
C27_InputOrderPreserved ==
    \A t \in Callers :
        metadata[t] # <<>>
        => /\ Len(metadata[t]) = Len(output[t].downloaded_items)
           /\ \A i \in 1..Len(metadata[t]) :
                 metadata[t][i].file_path
                    = output[t].downloaded_items[i].download_path

\* A RecipeCache for a report that lists two different paths, the larger
\* one first.
C27_Witness ==
    \E t \in Callers :
        /\ Len(metadata[t]) = 2
        /\ output[t].downloaded_items[1].download_path
              > output[t].downloaded_items[2].download_path
        /\ metadata[t][1].file_path > metadata[t][2].file_path

\* ------------------------------------------------- locator and format
\* C28: the file a construction has located has a name that ends in
\* .recipe, .recipe.plist or .recipe.yaml, its format is determined (PLIST,
\* PLIST, YAML) and the construction has not failed with the format error.
C28_LocatedFormatDetermined ==
    \A i \in DOMAIN recipes :
        LET r == recipes[i]
        IN  r.path # Unset
            => /\ HasRecipeExtension(r.path.name)
               /\ r.outcome # Raised(RecipeFormatException(suffix(r.path.name)))
               /\ r.format = IF endswith(r.path.name, <<".recipe", ".yaml">>)
                             THEN "YAML" ELSE "PLIST"

\* The first part of C28 alone: the located file's name ends in one of the
\* three extensions.
C28_NameHasRecipeExtension ==
    \A i \in DOMAIN recipes :
        recipes[i].path # Unset => HasRecipeExtension(recipes[i].path.name)

\* ------------------------------------------------ failure of a collection
\* C29: when run() ends with the error of a failed fetch, no fetch of that
\* metadata collection is still in flight.
C29_FailureAfterAllFetches ==
    [][\A t \in Callers :
          (pc[t] = "meta_wait" /\ pc'[t] = "idle" /\ ret'[t].kind = "raised")
          => orphans' = 0]_vars

====
